---- MODULE Spec2Model ----
(***************************************************************************)
(* Engine.IO transport layer of socketioxide: one session, its outbox and  *)
(* receiver lock, the long-polling handlers (open_req, polling_req,        *)
(* post_req) and the WebSocket handlers (on_init, upgrade_handshake,       *)
(* forward_to_handler, forward_to_socket).                                 *)
(*                                                                         *)
(* The handlers run as tokio tasks on a multi-threaded runtime, so every   *)
(* access to the shared session (registry lookup + transport tag load,     *)
(* try_lock, lock, unlock, tag store, channel send/recv, close) is a step  *)
(* of its own; steps that touch only task-local data are merged into the   *)
(* next shared access.                                                     *)
(*                                                                         *)
(* One sid is modelled.  Every HTTP request and every WebSocket connection *)
(* runs once.  Socket, EngineIo, the heartbeat and the payload codec are   *)
(* not part of the transport sources; they follow the design document:     *)
(* send fails with Closed / BufferFull, close is idempotent and wakes a    *)
(* parked reader, the encoder awaits one packet and drains within          *)
(* max_payload.                                                            *)
(*                                                                         *)
(* The operator pipeline of the socket.io layer (Operators: to, within,    *)
(* except, local, broadcast, timeout, bin, emit, emit_with_ack, sockets)   *)
(* is modelled next to it in the variable ops, which the transport steps   *)
(* leave alone.                                                            *)
(***************************************************************************)
EXTENDS Integers, Sequences, FiniteSets, TLC

\* ---------------------------------------------------------------- bounds
OutboxCap == 2          \* capacity of the session outbox (packets)
MaxPayload == 2         \* max_payload, counted in packets of size 1
MaxBody == 3            \* elements decoded from one POST body
MaxData == 2            \* characters of one message payload
MaxBatch == 2           \* packets of one batch handed to the codec
MaxPayloadChars == 10   \* max_payload, counted in characters

Pollers == {"p1", "p2"}         \* concurrent polling requests
Conns == {"w1", "w2"}           \* WebSocket connections
Upgraders == {"w1"}             \* the connection that runs next to the pollers
Msgs == {"a", "b"}              \* data of the messages the application emits

Sockets == {"A", "B", "C"}      \* sockets of the namespace
Rooms == {"r1", "r2"}
\* arguments of to / within / except: a room, or a list of rooms in which a
\* name may come twice
RoomParams == {<<"r1">>, <<"r2">>, <<"r1", "r2", "r1">>}
\* the recipients whose send fails during one fan-out
FailSets == {{}, {"B"}, {"A", "C"}}
Protocols == {"V3", "V4"}

\* ---------------------------------------------------------------- packets
PacketKinds ==
    {"Open", "Close", "Ping", "Pong", "PingUpgrade", "PongUpgrade",
     "Upgrade", "Noop", "Message", "Binary", "BinaryV3"}

\* what the payload decoder yields for one element of a POST body
BodyElems == PacketKinds \cup {"Malformed"}

\* what ws.next() / rx.try_next() yields: a text frame carrying a packet or
\* undecodable text, a binary frame, a close frame, the control frames, the
\* end of the stream, or a transport error
TextFrames == {<<"Text", k>> : k \in PacketKinds \cup {"Malformed"}}
Frames ==
    TextFrames \cup
    {<<"Binary">>, <<"Close">>, <<"Ping">>, <<"Pong">>, <<"End">>, <<"Err">>}

VARIABLES
    session,      \* "none" | "open" (in the engine registry) | "closed"
    transport,    \* transport tag of the session: "Polling" | "Websocket"
    outbox,       \* internal_tx/internal_rx channel content, FIFO
    rxClosed,     \* internal_rx.close() was called
    holders,      \* tasks holding the internal_rx lock
    hbRunning,    \* heartbeat task spawned and not aborted
    hbSignal,     \* heartbeat_tx channel holds a tick
    disconnects,  \* reasons handed to handler.on_disconnect, in order
    connects,     \* number of handler.on_connect calls
    poll,         \* per polling request: pc, result, payload
    ws,           \* per WebSocket connection: on_init / pump state
    post,         \* the POST request: pc, decoded prefix, deliveries, result
    pending,      \* history: packets enqueued and not yet taken off for a
                  \* transport by a response or a frame, in enqueue order
    discarded,    \* history: kinds of the packets the writer pump took and
                  \* did not send
    wire,         \* history: packets the last step handed to a transport
    ops,          \* socket.io layer: an Operators value, its namespace and
                  \* the broadcast it starts
    codec         \* polling payload codec: a batch, its encoding, its decoding

vars == <<session, transport, outbox, rxClosed, holders, hbRunning, hbSignal,
          disconnects, connects, poll, ws, post, pending, discarded, wire,
          ops, codec>>

engineVars == <<session, transport, outbox, rxClosed, holders, hbRunning,
                hbSignal, disconnects, connects>>

\* ---------------------------------------------------------------- session
\* A packet in the outbox remembers the transport tag at the time it was
\* enqueued (history information, not read by the code).
Pkt(k) == [kind |-> k, tag |-> transport, data |-> "-"]

is_http == transport = "Polling"
is_ws == transport = "Websocket"

\* engine.get_socket(sid)
get_socket == session = "open"

\* Socket::send: Err(Closed) on a terminated session, Err(BufferFull) on a
\* full outbox, otherwise the packet is appended.
SendResult(q) ==
    IF session # "open" \/ rxClosed THEN "Closed"
    ELSE IF Len(q) >= OutboxCap THEN "BufferFull"
    ELSE "Ok"

Enqueue(q, k) == Append(q, Pkt(k))

\* close wakes a parked reader: a Close packet is left on the outbox when
\* there is room for it
Wake(q) == IF ~rxClosed /\ Len(q) < OutboxCap THEN Enqueue(q, "Close") ELSE q

\* Faulty variant of CloseSession: not idempotent, the handler is notified on every
\* call.
CloseSessionTwice(reason, q) ==
    /\ session' = IF session = "none" THEN "none" ELSE "closed"
    /\ disconnects' = Append(disconnects, reason)
    /\ hbRunning' = FALSE
    /\ outbox' = q

\* Socket::close / EngineIo::close_session: idempotent; the first call
\* removes the session from the registry, stops the heartbeat, wakes a parked
\* reader and notifies the handler once.  q is the outbox after the sends the
\* calling step made before closing.
CloseSession(reason, q) ==
    IF session = "open"
    THEN /\ session' = "closed"
         /\ disconnects' = Append(disconnects, reason)
         /\ hbRunning' = FALSE
         /\ outbox' = Wake(q)
    ELSE /\ UNCHANGED <<session, disconnects, hbRunning>>
         /\ outbox' = q

\* History kept by every step that takes nothing off the outbox: what the
\* step appended to the outbox is appended to pending, nothing is handed to a
\* transport.
Track ==
    /\ pending' = pending \o SubSeq(outbox', Len(outbox) + 1, Len(outbox'))
    /\ wire' = <<>>
    /\ UNCHANGED <<discarded, ops, codec>>

\* heartbeat_tx.try_send(()): fails when the channel still holds a tick or
\* the heartbeat is gone
HeartbeatTrySend == hbRunning /\ ~hbSignal

\* ---------------------------------------------------------------- init
\* before Operators::new: no room has a member, nothing is selected
IdleOps ==
    [phase |-> "idle",
     members |-> [r \in Rooms |-> {}],
     opts |-> [sid |-> "None", rooms |-> {}, except |-> {}, flags |-> {}],
     binary |-> "none",
     last |-> "none",
     hist |-> [sel |-> {}, exc |-> {}, bc |-> FALSE],
     sel |-> <<>>,
     enq |-> [s \in Sockets |-> 0],
     failed |-> {},
     ser |-> TRUE,
     result |-> "none",
     slots |-> [s \in Sockets |-> "none"],
     stream |-> <<>>]
IdlePoll == [pc |-> "idle", result |-> "none", payload |-> <<>>,
             inflight |-> FALSE, late |-> FALSE]
IdleWs == [pc |-> "idle", sid |-> FALSE, proto |-> "V4", seen |-> <<>>,
           wpc |-> "none", result |-> "none", closeCalls |-> 0,
           bad |-> "none", noops |-> 0, closeSent |-> FALSE]
IdlePost == [pc |-> "idle", body |-> <<>>, delivered |-> <<>>,
             result |-> "none", closeCalls |-> 0]

\* no batch handed to the encoder
IdleCodec == [phase |-> "idle", proto |-> "V4", ps |-> <<>>, payload |-> <<>>,
              decoded |-> <<>>]

Init ==
    /\ session = "none"
    /\ transport = "Polling"
    /\ outbox = <<>>
    /\ rxClosed = FALSE
    /\ holders = {}
    /\ hbRunning = FALSE
    /\ hbSignal = FALSE
    /\ disconnects = <<>>
    /\ connects = 0
    /\ poll = [p \in Pollers |-> IdlePoll]
    /\ ws = [c \in Conns |-> IdleWs]
    /\ post = IdlePost
    /\ pending = <<>>
    /\ discarded = {}
    /\ wire = <<>>
    /\ ops = IdleOps
    /\ codec = IdleCodec

\* ---------------------------------------------------------------- polling
\* open_req: create a Polling session, start its heartbeat, on_connect
OpenReq ==
    /\ session = "none"
    /\ session' = "open"
    /\ transport' = "Polling"
    /\ hbRunning' = TRUE
    /\ connects' = connects + 1
    /\ UNCHANGED <<outbox, rxClosed, holders, hbSignal, disconnects,
                   poll, ws, post>>
    /\ Track

\* History: some upgrade handshake has failed on an unexpected frame
HandshakeFailed == \E c \in Conns : ws[c].bad # "none"

PollDone(p, res, pl) ==
    poll' = [poll EXCEPT ![p] = [pc |-> "done", result |-> res, payload |-> pl,
                                 inflight |-> FALSE,
                                 late |-> IF poll[p].pc = "idle"
                                          THEN HandshakeFailed
                                          ELSE poll[p].late]]

\* polling_req, lookup and transport check
PollStart(p) ==
    /\ poll[p].pc = "idle"
    /\ IF ~get_socket THEN PollDone(p, "UnknownSessionID", <<>>)
       ELSE IF ~is_http THEN PollDone(p, "TransportMismatch", <<>>)
       ELSE poll' = [poll EXCEPT ![p].pc = "checked",
                                 ![p].late = HandshakeFailed]
    /\ UNCHANGED <<engineVars, ws, post>>
    /\ Track

\* Faulty variant of TryLock: the lock is granted although it is held.
TryLockAlways(h) == TRUE

\* internal_rx.try_lock()
TryLock(h) == h = {}

\* Faulty variant of PollContended: the contended request is refused but the session
\* is left open.
PollContendedNoClose(p) ==
    /\ PollDone(p, "BadRequest", <<>>)
    /\ UNCHANGED <<engineVars, ws, post>>

\* polling_req, the Err arm of try_lock
PollContended(p) ==
    /\ CloseSession("MultipleHttpPollingError", outbox)
    /\ PollDone(p, "BadRequest", <<>>)
    /\ UNCHANGED <<transport, rxClosed, holders, hbSignal, connects, ws, post>>

\* polling_req, try_lock
PollTryLock(p) ==
    /\ poll[p].pc = "checked"
    /\ IF TryLock(holders)
       THEN /\ holders' = holders \cup {p}
            /\ poll' = [poll EXCEPT ![p].pc = "locked"]
            /\ UNCHANGED <<session, transport, outbox, rxClosed, hbRunning,
                           hbSignal, disconnects, connects, ws, post>>
       ELSE PollContended(p)
    /\ Track

Min(a, b) == IF a < b THEN a ELSE b

\* q without its first n elements
Drop(q, n) == SubSeq(q, Min(n, Len(q)) + 1, Len(q))

\* payload::encoder: await the first packet, drain what is immediately
\* available within max_payload, never splitting a packet
Batch(q) == SubSeq(q, 1, Min(Len(q), MaxPayload))
Rest(q) == SubSeq(q, Min(Len(q), MaxPayload) + 1, Len(q))

PollEncode(p) ==
    /\ poll[p].pc = "locked"
    /\ \/ /\ outbox # <<>>
          /\ poll' = [poll EXCEPT ![p].pc = "encoded",
                                  ![p].payload = Batch(outbox)]
          /\ outbox' = Rest(outbox)
       \/ /\ outbox = <<>>
          /\ rxClosed
          /\ poll' = [poll EXCEPT ![p].pc = "encoded", ![p].result = "Aborted"]
          /\ UNCHANGED outbox
    /\ UNCHANGED <<session, transport, rxClosed, holders, hbRunning, hbSignal,
                   disconnects, connects, ws, post>>
    /\ wire' = <<>>
    /\ UNCHANGED <<pending, discarded, ops, codec>>

\* the encoder returns: the guard is dropped and the response is built
PollRespond(p) ==
    /\ poll[p].pc = "encoded"
    /\ holders' = holders \ {p}
    /\ PollDone(p, IF poll[p].result = "Aborted" THEN "Aborted" ELSE "Ok",
                <<>>)
    /\ UNCHANGED <<session, transport, outbox, rxClosed, hbRunning, hbSignal,
                   disconnects, connects, ws, post>>
    /\ wire' = poll[p].payload
    /\ pending' = Drop(pending, Len(poll[p].payload))
    /\ UNCHANGED <<discarded, ops, codec>>

\* ---------------------------------------------------------------- websocket
WsSet(c, pcv, res) == ws' = [ws EXCEPT ![c].pc = pcv, ![c].result = res]

\* Faulty variant of Lookup: the transport of the session found is not looked at.
LookupAnyTransport == IF ~get_socket THEN "UnknownSessionID" ELSE "upgrade"

\* on_init, request carrying a sid: the session must exist and must not be on
\* WebSocket already
Lookup ==
    IF ~get_socket THEN "UnknownSessionID"
    ELSE IF is_ws THEN "UpgradeError"
    ELSE "upgrade"

\* on_init: session lookup for a request carrying a sid, create_session for a
\* request without one
WsStart(c, hasSid, proto) ==
    /\ ws[c].pc = "idle"
    /\ IF hasSid
       THEN /\ IF Lookup = "upgrade"
               THEN ws' = [ws EXCEPT ![c].pc = "hs0", ![c].sid = TRUE,
                              ![c].proto = proto]
               ELSE ws' = [ws EXCEPT ![c].pc = "done", ![c].sid = TRUE,
                              ![c].proto = proto, ![c].result = Lookup]
            /\ UNCHANGED <<session, transport>>
       ELSE /\ session = "none"
            /\ session' = "open"
            /\ transport' = "Websocket"
            /\ ws' = [ws EXCEPT ![c].pc = "init", ![c].proto = proto]
    /\ UNCHANGED <<outbox, rxClosed, holders, hbRunning, hbSignal,
                   disconnects, connects, poll, post>>
    /\ Track

\* init_handshake: send the Open packet, then spawn_heartbeat
WsInitHandshake(c, sendOk) ==
    /\ ws[c].pc = "init"
    /\ IF sendOk
       THEN /\ hbRunning' = TRUE
            /\ WsSet(c, "connected", "none")
       ELSE /\ WsSet(c, "done", "WsTransport")
            /\ UNCHANGED hbRunning
    /\ UNCHANGED <<session, transport, outbox, rxClosed, holders, hbSignal,
                   disconnects, connects, poll, post>>
    /\ Track

\* History: the polling requests that hold the lock and wait on the empty
\* outbox at the moment a handshake enqueues its Noop.
MarkInflight ==
    [p \in Pollers |->
        IF poll[p].pc = "locked" /\ outbox = <<>>
        THEN [poll[p] EXCEPT !.inflight = TRUE] ELSE poll[p]]

\* Faulty variant of NoopAt: the protocol version is not looked at.
NoopAtBoth(proto, stage) == TRUE

\* upgrade_handshake: the Noop for a pending polling request is sent at S0
\* under V4 and at S3 under V3
NoopAt(proto, stage) ==
    \/ proto = "V4" /\ stage = "S0"
    \/ proto = "V3" /\ stage = "S3"

\* upgrade_handshake, S0: V4 sends a Noop to any pending polling request
HsNoopV4(c) ==
    /\ ws[c].pc = "hs0"
    /\ IF NoopAt(ws[c].proto, "S0")
       THEN IF SendResult(outbox) = "Ok"
            THEN /\ outbox' = Enqueue(outbox, "Noop")
                 /\ poll' = MarkInflight
                 /\ ws' = [ws EXCEPT ![c].pc = "hs1", ![c].noops = @ + 1]
            ELSE /\ WsSet(c, "done", SendResult(outbox))
                 /\ UNCHANGED <<outbox, poll>>
       ELSE /\ WsSet(c, "hs1", "none")
            /\ UNCHANGED <<outbox, poll>>
    /\ UNCHANGED <<session, transport, rxClosed, holders, hbRunning, hbSignal,
                   disconnects, connects, post>>
    /\ Track

\* what the handshake was given instead of the frame it awaits
FrameClass(f) ==
    IF f[1] = "Text"
    THEN IF f[2] = "Malformed" THEN "TextUndecodable" ELSE "TextPacket"
    ELSE IF f[1] \in {"Close", "Binary"} THEN f[1]
    ELSE "Other"

\* Faulty variant of HsFrameError: every unexpected frame is an UpgradeError.
HsFrameErrorUniform(f, expected) ==
    IF f = <<"Text", expected>> THEN "none" ELSE "UpgradeError"

\* upgrade_handshake: the error raised by the frame f where the text frame
\* carrying the packet `expected` is awaited ("none": f is that frame)
HsFrameError(f, expected) ==
    IF f[1] # "Text" THEN "UpgradeError"
    ELSE IF f[2] = "Malformed" THEN "ParseError"
    ELSE IF f[2] # expected THEN "BadPacket"
    ELSE "none"

\* Faulty variant of HsFail: the error is recorded and the handshake goes on to
\* the tag flip.
HsFailGoesOn(c, f, expected) ==
    ws' = [ws EXCEPT ![c].pc = "hs6",
                     ![c].result = HsFrameError(f, expected),
                     ![c].bad = FrameClass(f)]

\* upgrade_handshake returns the error, on_init returns it in turn
HsFail(c, f, expected) ==
    ws' = [ws EXCEPT ![c].pc = "done",
                     ![c].result = HsFrameError(f, expected),
                     ![c].bad = FrameClass(f)]

\* upgrade_handshake, S1..S3: the next frame must be the text frame 2probe;
\* answer 3probe; V3 then sends the Noop
HsPing(c, f, sendOk) ==
    /\ ws[c].pc = "hs1"
    /\ IF HsFrameError(f, "PingUpgrade") # "none"
       THEN HsFail(c, f, "PingUpgrade") /\ UNCHANGED <<outbox, poll>>
       ELSE IF ~sendOk
       THEN /\ ws' = [ws EXCEPT ![c].pc = "done", ![c].result = "WsTransport",
                         ![c].seen = Append(@, "rPingUpgrade")]
            /\ UNCHANGED <<outbox, poll>>
       ELSE IF ~NoopAt(ws[c].proto, "S3")
       THEN /\ ws' = [ws EXCEPT ![c].pc = "hs4",
                         ![c].seen = @ \o <<"rPingUpgrade", "sPongUpgrade">>]
            /\ UNCHANGED <<outbox, poll>>
       ELSE IF SendResult(outbox) = "Ok"
       THEN /\ ws' = [ws EXCEPT ![c].pc = "hs4", ![c].noops = @ + 1,
                         ![c].seen = @ \o <<"rPingUpgrade", "sPongUpgrade">>]
            /\ outbox' = Enqueue(outbox, "Noop")
            /\ poll' = MarkInflight
       ELSE /\ ws' = [ws EXCEPT ![c].pc = "done",
                         ![c].result = SendResult(outbox),
                         ![c].seen = @ \o <<"rPingUpgrade", "sPongUpgrade">>]
            /\ UNCHANGED <<outbox, poll>>
    /\ UNCHANGED <<session, transport, rxClosed, holders, hbRunning, hbSignal,
                   disconnects, connects, post>>
    /\ Track

\* Faulty variant of HsAccepts: any decodable text frame ends the probe.
HsAcceptsAnyPacket(f) == f[1] = "Text" /\ f[2] # "Malformed"

\* upgrade_handshake, S4: the frame that completes the probe
HsAccepts(f) == f = <<"Text", "Upgrade">>

\* upgrade_handshake, S4: the next frame must be the text frame 5
HsUpgrade(c, f) ==
    /\ ws[c].pc = "hs4"
    /\ IF HsAccepts(f)
       THEN ws' = [ws EXCEPT ![c].pc = "hs5",
                      ![c].seen = IF f = <<"Text", "Upgrade">>
                                  THEN Append(@, "rUpgrade") ELSE @]
       ELSE HsFail(c, f, "Upgrade")
    /\ UNCHANGED <<engineVars, poll, post>>
    /\ Track

\* Faulty variant of LockFree: the handshake does not wait for the lock.
LockNotAwaited(h) == TRUE

\* Mutex::lock().await completes only when nobody holds the lock
LockFree(h) == h = {}

\* upgrade_handshake, S5: internal_rx.lock().await returns once the lock is
\* free
HsLock(c) ==
    /\ ws[c].pc = "hs5"
    /\ LockFree(holders)
    /\ holders' = holders \cup {c}
    /\ WsSet(c, "hs_locked", "none")
    /\ UNCHANGED <<session, transport, outbox, rxClosed, hbRunning, hbSignal,
                   disconnects, connects, poll, post>>
    /\ Track

\* `let _ = ...lock().await;` drops the guard at the end of the statement
HsUnlock(c) ==
    /\ ws[c].pc = "hs_locked"
    /\ holders' = holders \ {c}
    /\ WsSet(c, "hs6", "none")
    /\ UNCHANGED <<session, transport, outbox, rxClosed, hbRunning, hbSignal,
                   disconnects, connects, poll, post>>
    /\ Track

\* upgrade_handshake, S6: socket.upgrade_to_websocket()
HsFlip(c) ==
    /\ ws[c].pc = "hs6"
    /\ transport' = "Websocket"
    /\ WsSet(c, "connected", "none")
    /\ UNCHANGED <<session, outbox, rxClosed, holders, hbRunning, hbSignal,
                   disconnects, connects, poll, post>>
    /\ Track

\* on_init: ws.split(), forward_to_socket spawns the writer pump, on_connect
WsSpawn(c) ==
    /\ ws[c].pc = "connected"
    /\ ws' = [ws EXCEPT ![c].pc = "reading", ![c].wpc = "start"]
    /\ connects' = connects + 1
    /\ UNCHANGED <<session, transport, outbox, rxClosed, holders, hbRunning,
                   hbSignal, disconnects, poll, post>>
    /\ Track

\* forward_to_handler: one frame of the reader pump.  "ret" is the return to
\* on_init with result Ok or the error.
WsRead(c, f) ==
    /\ ws[c].pc = "reading"
    /\ IF f = <<"Text", "Close">>
       THEN /\ CloseSession("TransportClose", outbox)
            /\ ws' = [ws EXCEPT ![c].pc = "ret", ![c].result = "Ok",
                          ![c].closeCalls = @ + 1]
            /\ UNCHANGED hbSignal
       ELSE /\ UNCHANGED <<session, disconnects, hbRunning, outbox>>
            /\ IF f \in {<<"Text", "Ping">>, <<"Text", "Pong">>}
               THEN IF HeartbeatTrySend
                    THEN hbSignal' = TRUE /\ UNCHANGED ws
                    ELSE WsSet(c, "ret", "HeartbeatTimeout")
                         /\ UNCHANGED hbSignal
               ELSE /\ UNCHANGED hbSignal
                    /\ IF f \in {<<"Text", "Message">>, <<"Binary">>}
                       THEN UNCHANGED ws
                       ELSE IF f = <<"Text", "Malformed">>
                       THEN WsSet(c, "ret", "ParseError")
                       ELSE IF f[1] = "Text" THEN WsSet(c, "ret", "BadPacket")
                       ELSE IF f \in {<<"Close">>, <<"End">>}
                       THEN WsSet(c, "ret", "Ok")
                       ELSE IF f = <<"Err">> THEN WsSet(c, "ret", "WsTransport")
                       ELSE WsSet(c, "panicked", "panic")
    /\ UNCHANGED <<transport, rxClosed, holders, connects, poll, post>>
    /\ Track

\* Option<DisconnectReason>::from(&Error)
DeriveReason(e) ==
    CASE e = "WsTransport" -> "TransportError"
      [] e \in {"BadPacket", "ParseError"} -> "PacketParsingError"
      [] e = "HeartbeatTimeout" -> "HeartbeatTimeout"
      [] OTHER -> "None"

PumpRunning(w) == w \in {"await", "drain"}

\* Faulty variant of FinishReason: the session is closed only when the reader
\* failed.
FinishReasonErrOnly(res) ==
    IF res = "Ok" THEN "None" ELSE DeriveReason(res)

\* on_init: the reason the session is closed with once forward_to_handler
\* returned res ("None": close_session is not called)
FinishReason(res) ==
    IF res = "Ok" THEN "TransportClose" ELSE DeriveReason(res)

\* on_init after forward_to_handler returned: close_session, rx_handle.abort()
WsFinish(c) ==
    /\ ws[c].pc = "ret"
    /\ LET reason == FinishReason(ws[c].result)
       IN /\ IF reason # "None"
             THEN CloseSession(reason, outbox)
             ELSE UNCHANGED <<session, disconnects, hbRunning, outbox>>
          /\ ws' = [ws EXCEPT ![c].pc = "done",
                        ![c].closeCalls = IF reason # "None" THEN @ + 1 ELSE @,
                        ![c].wpc = IF @ \in {"start", "await", "drain"}
                                   THEN "aborted" ELSE @]
    /\ holders' = IF PumpRunning(ws[c].wpc) THEN holders \ {c} ELSE holders
    /\ UNCHANGED <<transport, rxClosed, hbSignal, connects, poll, post>>
    /\ Track

\* forward_to_socket: socket.internal_rx.try_lock().unwrap()
PumpStart(c) ==
    /\ ws[c].wpc = "start"
    /\ IF TryLock(holders)
       THEN /\ holders' = holders \cup {c}
            /\ ws' = [ws EXCEPT ![c].wpc = "await"]
       ELSE /\ ws' = [ws EXCEPT ![c].wpc = "panicked"]
            /\ UNCHANGED holders
    /\ UNCHANGED <<session, transport, outbox, rxClosed, hbRunning, hbSignal,
                   disconnects, connects, poll, post>>
    /\ Track

\* Faulty variant of FrameOf: only binary and Close packets are written.
FrameOfNoText(k) ==
    CASE k \in {"Binary", "BinaryV3"} -> "Binary"
      [] k = "Close" -> "Close"
      [] OTHER -> "none"

\* forward_to_socket, map_fn: the frame written for a packet ("none": the
\* packet is dropped)
FrameOf(k) ==
    CASE k \in {"Binary", "BinaryV3"} -> "Binary"
      [] k = "Close" -> "Close"
      [] k = "Noop" -> "none"
      [] OTHER -> "Text"

\* forward_to_socket: map_fn on the packet taken by recv().await
\* (wpc = "await") or by try_recv() (wpc = "drain"); an empty try_recv
\* flushes and goes back to recv().await.  The `break` of map_fn on a Close
\* packet leaves the loop it is expanded in: the pump when the packet came
\* from recv().await, only the drain loop when it came from try_recv().
PumpStep(c) ==
    /\ PumpRunning(ws[c].wpc)
    /\ IF outbox # <<>>
       THEN /\ outbox' = Tail(outbox)
            /\ pending' = Drop(pending, 1)
            /\ IF FrameOf(Head(outbox).kind) = "none"
               THEN /\ wire' = <<>>
                    /\ discarded' = discarded \cup {Head(outbox).kind}
               ELSE /\ wire' = <<Head(outbox)>>
                    /\ UNCHANGED discarded
            /\ IF Head(outbox).kind = "Close"
               THEN /\ rxClosed' = TRUE
                    /\ IF ws[c].wpc = "await"
                       THEN /\ holders' = holders \ {c}
                            /\ ws' = [ws EXCEPT ![c].wpc = "ended",
                                                ![c].closeSent = TRUE]
                       ELSE /\ ws' = [ws EXCEPT ![c].wpc = "await",
                                                ![c].closeSent = TRUE]
                            /\ UNCHANGED holders
               ELSE /\ ws' = [ws EXCEPT ![c].wpc = "drain"]
                    /\ UNCHANGED <<rxClosed, holders>>
       ELSE /\ UNCHANGED <<outbox, rxClosed, pending, discarded>>
            /\ wire' = <<>>
            /\ IF ws[c].wpc = "drain"
               THEN /\ ws' = [ws EXCEPT ![c].wpc = "await"]
                    /\ UNCHANGED holders
               ELSE /\ rxClosed
                    /\ holders' = holders \ {c}
                    /\ ws' = [ws EXCEPT ![c].wpc = "ended"]
    /\ UNCHANGED <<session, transport, hbRunning, hbSignal, disconnects,
                   connects, poll, post, ops, codec>>

\* ---------------------------------------------------------------- post
PostSet(pcv, res) == post' = [post EXCEPT !.pc = pcv, !.result = res]

\* post_req, lookup and transport check
PostStart ==
    /\ post.pc = "idle"
    /\ IF ~get_socket THEN PostSet("done", "UnknownSessionID")
       ELSE IF ~is_http THEN PostSet("done", "TransportMismatch")
       ELSE PostSet("decoding", "none")
    /\ UNCHANGED <<engineVars, poll, ws>>
    /\ Track

\* Faulty variant of PostDispatch: a packet of an unexpected kind is dropped and the
\* loop goes on.
PostDispatchLenient(e) ==
    CASE e \in {"Ping", "Pong"} -> "heartbeat"
      [] e = "Message" -> "on_message"
      [] e \in {"Binary", "BinaryV3"} -> "on_binary"
      [] e = "Close" -> "close"
      [] e = "Malformed" -> "parse_error"
      [] OTHER -> "skip"

\* post_req: the arm of the match taken by a decoded element
PostDispatch(e) ==
    CASE e \in {"Ping", "Pong"} -> "heartbeat"
      [] e = "Message" -> "on_message"
      [] e \in {"Binary", "BinaryV3"} -> "on_binary"
      [] e = "Close" -> "close"
      [] e = "Malformed" -> "parse_error"
      [] OTHER -> "bad_packet"

\* Faulty variant of Deliver: the newest packet is handed over ahead of the earlier
\* ones.
DeliverFirst(d, e) == <<e>> \o d

\* post_req: engine.handler.on_message / on_binary, in the order of the calls
Deliver(d, e) == Append(d, e)

\* post_req: the decoder yields the next element e of the body
PostStep(e) ==
    /\ post.pc = "decoding"
    /\ Len(post.body) < MaxBody
    /\ LET arm == PostDispatch(e)
           seen == Append(post.body, e)
       IN
       CASE arm = "close" ->
              /\ IF SendResult(outbox) = "Ok"
                 THEN /\ outbox' = Enqueue(outbox, "Noop")
                      /\ post' = [post EXCEPT !.pc = "closing", !.body = seen]
                 ELSE /\ post' = [post EXCEPT !.pc = "done", !.body = seen,
                                     !.result = SendResult(outbox)]
                      /\ UNCHANGED outbox
              /\ UNCHANGED <<session, disconnects, hbRunning, hbSignal>>
         [] arm = "heartbeat" ->
              /\ IF HeartbeatTrySend
                 THEN /\ hbSignal' = TRUE
                      /\ post' = [post EXCEPT !.body = seen]
                 ELSE /\ post' = [post EXCEPT !.pc = "done", !.body = seen,
                                     !.result = "HeartbeatTimeout"]
                      /\ UNCHANGED hbSignal
              /\ UNCHANGED <<session, disconnects, hbRunning, outbox>>
         [] arm \in {"on_message", "on_binary"} ->
              /\ post' = [post EXCEPT !.body = seen,
                             !.delivered = Deliver(@, e)]
              /\ UNCHANGED <<session, disconnects, hbRunning, hbSignal, outbox>>
         [] arm = "skip" ->
              /\ post' = [post EXCEPT !.body = seen]
              /\ UNCHANGED <<session, disconnects, hbRunning, hbSignal, outbox>>
         [] arm = "bad_packet" ->
              /\ post' = [post EXCEPT !.pc = "done", !.body = seen,
                             !.result = "BadPacket"]
              /\ UNCHANGED <<session, disconnects, hbRunning, hbSignal, outbox>>
         [] arm = "parse_error" ->
              /\ CloseSession("PacketParsingError", outbox)
              /\ post' = [post EXCEPT !.pc = "done", !.body = seen,
                             !.result = "ParseError", !.closeCalls = @ + 1]
              /\ UNCHANGED hbSignal
    /\ UNCHANGED <<transport, rxClosed, holders, connects, poll, ws>>
    /\ Track

\* post_req, Close arm after the Noop was sent: close_session, break
PostClose ==
    /\ post.pc = "closing"
    /\ CloseSession("TransportClose", outbox)
    /\ post' = [post EXCEPT !.pc = "done", !.result = "Ok",
                   !.closeCalls = @ + 1]
    /\ UNCHANGED <<transport, rxClosed, holders, hbSignal, connects, poll, ws>>
    /\ Track

\* post_req: the decoder is exhausted, respond 200 "ok"
PostEnd ==
    /\ post.pc = "decoding"
    /\ PostSet("done", "Ok")
    /\ UNCHANGED <<engineVars, poll, ws>>
    /\ Track

\* ---------------------------------------------------------------- server side
\* the application emits on the session: socket.send(Message)
AppEmit(m) ==
    /\ SendResult(outbox) = "Ok"
    /\ outbox' = Append(outbox, [Pkt("Message") EXCEPT !.data = m])
    /\ UNCHANGED <<session, transport, rxClosed, holders, hbRunning, hbSignal,
                   disconnects, connects, poll, ws, post>>
    /\ Track

\* heartbeat task: consumes a tick, or times out and closes the session
HeartbeatTick ==
    /\ hbRunning
    /\ hbSignal
    /\ hbSignal' = FALSE
    /\ UNCHANGED <<session, transport, outbox, rxClosed, holders, hbRunning,
                   disconnects, connects, poll, ws, post>>
    /\ Track

HeartbeatTimeout ==
    /\ hbRunning
    /\ ~hbSignal
    /\ CloseSession("HeartbeatTimeout", outbox)
    /\ UNCHANGED <<transport, rxClosed, holders, hbSignal, connects,
                   poll, ws, post>>
    /\ Track

\* the polling and WebSocket tasks of one session, the application and the
\* heartbeat
Next ==
    \/ OpenReq
    \/ \E p \in Pollers : PollStart(p)
    \/ \E p \in Pollers : PollTryLock(p)
    \/ \E p \in Pollers : PollEncode(p)
    \/ \E p \in Pollers : PollRespond(p)
    \/ \E c \in Upgraders, b \in BOOLEAN, v \in Protocols : WsStart(c, b, v)
    \/ \E c \in Upgraders, ok \in BOOLEAN : WsInitHandshake(c, ok)
    \/ \E c \in Upgraders : HsNoopV4(c)
    \/ \E c \in Upgraders, f \in Frames, ok \in BOOLEAN : HsPing(c, f, ok)
    \/ \E c \in Upgraders, f \in Frames : HsUpgrade(c, f)
    \/ \E c \in Upgraders : HsLock(c)
    \/ \E c \in Upgraders : HsUnlock(c)
    \/ \E c \in Upgraders : HsFlip(c)
    \/ \E c \in Upgraders : WsSpawn(c)
    \/ \E c \in Upgraders, f \in Frames : WsRead(c, f)
    \/ \E c \in Upgraders : WsFinish(c)
    \/ \E c \in Upgraders : PumpStart(c)
    \/ \E c \in Upgraders : PumpStep(c)
    \/ AppEmit("a")
    \/ HeartbeatTick
    \/ HeartbeatTimeout

Spec == Init /\ [][Next]_vars

\* a POST request next to one polling request, the application and the
\* heartbeat; the session is opened over polling or created by a WebSocket
\* request without a sid
NextPost ==
    \/ OpenReq
    \/ \E c \in Upgraders, v \in Protocols : WsStart(c, FALSE, v)
    \/ PollStart("p1")
    \/ PollTryLock("p1")
    \/ PollEncode("p1")
    \/ PollRespond("p1")
    \/ PostStart
    \/ \E e \in BodyElems : PostStep(e)
    \/ PostClose
    \/ PostEnd
    \/ AppEmit("a")
    \/ HeartbeatTick
    \/ HeartbeatTimeout

SpecPost == Init /\ [][NextPost]_vars

\* the flow of packets from the outbox to the transports: one polling request
\* and one WebSocket connection, the application emitting distinguishable
\* messages
NextFlow ==
    \/ OpenReq
    \/ PollStart("p1")
    \/ PollTryLock("p1")
    \/ PollEncode("p1")
    \/ PollRespond("p1")
    \/ \E b \in BOOLEAN, v \in Protocols : WsStart("w1", b, v)
    \/ \E ok \in BOOLEAN : WsInitHandshake("w1", ok)
    \/ HsNoopV4("w1")
    \/ \E f \in Frames, ok \in BOOLEAN : HsPing("w1", f, ok)
    \/ \E f \in Frames : HsUpgrade("w1", f)
    \/ HsLock("w1")
    \/ HsUnlock("w1")
    \/ HsFlip("w1")
    \/ WsSpawn("w1")
    \/ \E f \in Frames : WsRead("w1", f)
    \/ WsFinish("w1")
    \/ PumpStart("w1")
    \/ PumpStep("w1")
    \/ \E m \in Msgs : AppEmit(m)
    \/ HeartbeatTick
    \/ HeartbeatTimeout

SpecFlow == Init /\ [][NextFlow]_vars

\* two WebSocket requests on one sid, the application and the heartbeat; the
\* session is opened over polling or created by a request without a sid
NextWs ==
    \/ OpenReq
    \/ \E c \in Conns, b \in BOOLEAN, v \in Protocols : WsStart(c, b, v)
    \/ \E c \in Conns, ok \in BOOLEAN : WsInitHandshake(c, ok)
    \/ \E c \in Conns : HsNoopV4(c)
    \/ \E c \in Conns, f \in Frames, ok \in BOOLEAN : HsPing(c, f, ok)
    \/ \E c \in Conns, f \in Frames : HsUpgrade(c, f)
    \/ \E c \in Conns : HsLock(c)
    \/ \E c \in Conns : HsUnlock(c)
    \/ \E c \in Conns : HsFlip(c)
    \/ \E c \in Conns : WsSpawn(c)
    \/ \E c \in Conns, f \in Frames : WsRead(c, f)
    \/ \E c \in Conns : WsFinish(c)
    \/ \E c \in Conns : PumpStart(c)
    \/ \E c \in Conns : PumpStep(c)
    \/ AppEmit("a")
    \/ HeartbeatTick
    \/ HeartbeatTimeout

SpecWs == Init /\ [][NextWs]_vars
\* ---------------------------------------------------------------- operators
\* The socket.io layer: an Operators value built by chained calls and consumed
\* by emit, emit_with_ack or sockets.  The namespace, the adapter and
\* BroadcastOptions are not part of the operator sources; they follow the
\* design document: opts.rooms and opts.except are sets of rooms, the
\* adapter resolves the selection, fans the packet out recipient by
\* recipient and keeps one pending-ack slot per selected session.
transportVars == <<session, transport, outbox, rxClosed, holders, hbRunning,
                   hbSignal, disconnects, connects, poll, ws, post, pending,
                   discarded, wire, codec>>

Range(q) == {q[i] : i \in 1..Len(q)}

\* Itertools::unique: the first occurrence of every element, in order
RECURSIVE Unique(_)
Unique(q) ==
    IF q = <<>> THEN <<>>
    ELSE <<Head(q)>> \o Unique(SelectSeq(Tail(q), LAMBDA x : x # Head(q)))

\* the elements of a set in the order an iteration meets them
RECURSIVE SetToSeq(_)
SetToSeq(S) ==
    IF S = {} THEN <<>>
    ELSE LET x == CHOOSE y \in S : TRUE IN <<x>> \o SetToSeq(S \ {x})

\* the members of the rooms rs, room after room
RECURSIVE MembersOf(_, _)
MembersOf(rs, mem) ==
    IF rs = <<>> THEN <<>>
    ELSE SetToSeq(mem[Head(rs)]) \o MembersOf(Tail(rs), mem)

\* the sessions a selection keeps: not in an excepted room, and not the
\* emitter under the Broadcast flag
Kept(o, mem, q) ==
    SelectSeq(q, LAMBDA s :
        /\ s \notin UNION {mem[x] : x \in o.except}
        /\ ~("Broadcast" \in o.flags /\ o.sid = s))

\* Faulty variant of Resolve: a session met in two selected rooms is taken twice.
ResolveNoDedup(o, mem) ==
    Kept(o, mem, IF o.rooms = {} THEN SetToSeq(Sockets)
                 ELSE MembersOf(SetToSeq(o.rooms), mem))

\* Adapter, selection resolution: the universe (all sockets, or the members
\* of the selected rooms without duplicates), minus the excepted rooms, minus
\* the emitter under the Broadcast flag
Resolve(o, mem) ==
    Unique(Kept(o, mem, IF o.rooms = {} THEN SetToSeq(Sockets)
                        ELSE MembersOf(SetToSeq(o.rooms), mem)))

\* Faulty variant of to: the rooms are selected, the Broadcast flag is not set.
toNoFlag(o, rooms) ==
    [o EXCEPT !.rooms = @ \cup Range(Unique(rooms))]

\* Operators::to
to(o, rooms) ==
    [o EXCEPT !.rooms = @ \cup Range(Unique(rooms)),
              !.flags = @ \cup {"Broadcast"}]

\* Faulty variant of within: behaves as to.
withinAsTo(o, rooms) ==
    [o EXCEPT !.rooms = @ \cup Range(Unique(rooms)),
              !.flags = @ \cup {"Broadcast"}]

\* Operators::within
within(o, rooms) ==
    [o EXCEPT !.rooms = @ \cup Range(Unique(rooms))]

\* Operators::except
except(o, rooms) ==
    [o EXCEPT !.except = @ \cup Range(Unique(rooms)),
              !.flags = @ \cup {"Broadcast"}]

\* Operators::local
local(o) == [o EXCEPT !.flags = @ \cup {"Local"}]

\* Operators::broadcast
broadcast(o) == [o EXCEPT !.flags = @ \cup {"Broadcast"}]

\* Operators::timeout
timeout(o) == [o EXCEPT !.flags = @ \cup {"Timeout"}]

\* Adapter::add_all: socket s joins room r
OpJoin(s, r) ==
    /\ ops.phase = "idle"
    /\ ops' = [ops EXCEPT !.members[r] = @ \cup {s}]
    /\ UNCHANGED transportVars

\* Operators::new(ns, sid)
OpNew(sid) ==
    /\ ops.phase = "idle"
    /\ ops' = [ops EXCEPT !.phase = "building", !.opts.sid = sid]
    /\ UNCHANGED transportVars

\* one chained call; hist remembers the rooms named for selection and for
\* exclusion and whether to, except or broadcast was called
OpTo(rooms) ==
    /\ ops.phase = "building"
    /\ ops' = [ops EXCEPT !.opts = to(@, rooms),
                          !.last = "to",
                          !.hist.sel = @ \cup Range(rooms),
                          !.hist.bc = TRUE]
    /\ UNCHANGED transportVars

OpWithin(rooms) ==
    /\ ops.phase = "building"
    /\ ops' = [ops EXCEPT !.opts = within(@, rooms),
                          !.last = "within",
                          !.hist.sel = @ \cup Range(rooms)]
    /\ UNCHANGED transportVars

OpExcept(rooms) ==
    /\ ops.phase = "building"
    /\ ops' = [ops EXCEPT !.opts = except(@, rooms),
                          !.last = "except",
                          !.hist.exc = @ \cup Range(rooms),
                          !.hist.bc = TRUE]
    /\ UNCHANGED transportVars

OpLocal ==
    /\ ops.phase = "building"
    /\ ops' = [ops EXCEPT !.opts = local(@), !.last = "local"]
    /\ UNCHANGED transportVars

OpBroadcast ==
    /\ ops.phase = "building"
    /\ ops' = [ops EXCEPT !.opts = broadcast(@), !.last = "broadcast",
                          !.hist.bc = TRUE]
    /\ UNCHANGED transportVars

OpTimeout ==
    /\ ops.phase = "building"
    /\ ops' = [ops EXCEPT !.opts = timeout(@), !.last = "timeout"]
    /\ UNCHANGED transportVars

\* Operators::bin
OpBin ==
    /\ ops.phase = "building"
    /\ ops' = [ops EXCEPT !.binary = "attached", !.last = "bin"]
    /\ UNCHANGED transportVars

\* Operators::sockets: adapter.fetch_sockets(opts)
OpSockets ==
    /\ ops.phase = "building"
    /\ ops' = [ops EXCEPT !.phase = "fetched",
                          !.sel = Resolve(ops.opts, ops.members)]
    /\ UNCHANGED transportVars

\* number of times s comes in q
Count(q, s) == Len(SelectSeq(q, LAMBDA x : x = s))

\* Adapter::broadcast: the packet is enqueued on every selected session whose
\* send succeeds; the sends that fail are collected
Fanout(q, fail) ==
    [s \in Sockets |-> IF s \in fail THEN 0 ELSE Count(q, s)]

\* Faulty variant of EmitResult: the error of the broadcast is returned.
EmitResultRaises(serOk, sendErrors) ==
    IF ~serOk THEN "SerializeError"
    ELSE IF sendErrors THEN "BroadcastError"
    ELSE "Ok"

\* Operators::emit: `?` on get_packet, the Err of adapter.broadcast is logged
\* and dropped, Ok(())
EmitResult(serOk, sendErrors) ==
    IF ~serOk THEN "SerializeError" ELSE "Ok"

\* Operators::emit; the data serializes or not, the sends to the sessions in
\* fail return Closed or BufferFull
OpEmit(serOk, fail) ==
    /\ ops.phase = "building"
    /\ LET sel == Resolve(ops.opts, ops.members)
       IN IF serOk
          THEN ops' = [ops EXCEPT
                          !.phase = "emitted", !.ser = TRUE, !.sel = sel,
                          !.failed = fail,
                          !.enq = Fanout(sel, fail),
                          !.result = EmitResult(TRUE, Range(sel) \cap fail # {})]
          ELSE ops' = [ops EXCEPT
                          !.phase = "emitted", !.ser = FALSE,
                          !.result = EmitResult(FALSE, FALSE)]
    /\ UNCHANGED transportVars

\* Operators::emit_with_ack: adapter.broadcast_with_ack registers one
\* pending-ack slot per selected session and returns the stream
OpEmitWithAck(serOk) ==
    /\ ops.phase = "building"
    /\ LET sel == Resolve(ops.opts, ops.members)
       IN IF serOk
          THEN ops' = [ops EXCEPT
                          !.phase = "acking", !.ser = TRUE, !.sel = sel,
                          !.enq = Fanout(sel, {}),
                          !.slots = [s \in Sockets |->
                                        IF s \in Range(sel) THEN "pending"
                                        ELSE "none"],
                          !.result = "Ok"]
          ELSE ops' = [ops EXCEPT
                          !.phase = "emitted", !.ser = FALSE,
                          !.result = "SerializeError"]
    /\ UNCHANGED transportVars

\* Faulty variant of Expired: a slot that times out yields nothing.
ExpiredSilently(st, s) == st

\* the item the stream yields for a slot that reached the effective timeout
Expired(st, s) == Append(st, <<s, "Timeout">>)

\* the session s acknowledges before the timeout of its slot
AckArrive(s) ==
    /\ ops.phase = "acking"
    /\ ops.slots[s] = "pending"
    /\ ops' = [ops EXCEPT !.slots[s] = "acked",
                          !.stream = Append(@, <<s, "Ok">>)]
    /\ UNCHANGED transportVars

\* the effective timeout of the slot of s elapses
AckExpire(s) ==
    /\ ops.phase = "acking"
    /\ ops.slots[s] = "pending"
    /\ ops' = [ops EXCEPT !.slots[s] = "timeout",
                          !.stream = Expired(@, s)]
    /\ UNCHANGED transportVars

\* every slot is resolved: the stream ends
StreamEnd ==
    /\ ops.phase = "acking"
    /\ \A s \in Sockets : ops.slots[s] # "pending"
    /\ ops' = [ops EXCEPT !.phase = "ended"]
    /\ UNCHANGED transportVars

\* sockets join rooms, then one Operators value is built and consumed by emit
\* or sockets
NextOps ==
    \/ \E s \in Sockets, r \in Rooms : OpJoin(s, r)
    \/ \E sid \in {"A", "None"} : OpNew(sid)
    \/ \E rooms \in RoomParams : OpTo(rooms)
    \/ \E rooms \in RoomParams : OpWithin(rooms)
    \/ \E rooms \in RoomParams : OpExcept(rooms)
    \/ OpLocal
    \/ OpBroadcast
    \/ OpTimeout
    \/ OpBin
    \/ OpSockets
    \/ \E serOk \in BOOLEAN, fail \in FailSets : OpEmit(serOk, fail)

SpecOps == Init /\ [][NextOps]_vars

\* a broadcast with acknowledgements: the timers of the pending slots fire
\* and the stream is polled to its end
NextAck ==
    \/ \E s \in Sockets, r \in Rooms : OpJoin(s, r)
    \/ \E sid \in {"A", "None"} : OpNew(sid)
    \/ \E rooms \in RoomParams : OpTo(rooms)
    \/ \E rooms \in RoomParams : OpWithin(rooms)
    \/ OpTimeout
    \/ \E serOk \in BOOLEAN : OpEmitWithAck(serOk)
    \/ \E s \in Sockets : AckArrive(s)
    \/ \E s \in Sockets : AckExpire(s)
    \/ StreamEnd

SpecAck ==
    /\ Init
    /\ [][NextAck]_vars
    /\ WF_vars(\E s \in Sockets : AckExpire(s))
    /\ WF_vars(StreamEnd)

\* ================================================================ codec
\* The polling payload codec (payload::encoder / payload::decoder, called by
\* polling_req and post_req).  A payload is a sequence of characters; a
\* packet is a kind and its data: characters for Open and Message, bytes
\* for Binary.
RS == "<RS>"                     \* the record separator \x1E
PayloadChars == {"a", ":", RS}   \* characters of a message payload
B64Alphabet == <<"A", "B">>      \* characters of the base64 alphabet
BinData == {<<>>, <<1>>, <<2, 1>>}   \* binary packet contents (bytes 1 and 2)
ProbeText == <<"p", "r", "o", "b", "e">>
OpenJson == <<"{", ":", "}">>    \* JSON of OpenPacket, abbreviated

SeqsUpTo(S, n) == UNION {[1..k -> S] : k \in 0..n}

CodecPkt(k, d) == [kind |-> k, data |-> d]
ParseError == CodecPkt("ParseError", <<>>)
PayloadTooLarge == CodecPkt("PayloadTooLarge", <<>>)

\* the packets a batch is made of
CodecPackets ==
    {CodecPkt(k, <<>>) : k \in {"Close", "Ping", "Pong", "Upgrade", "Noop",
                                "PingUpgrade", "PongUpgrade"}}
    \cup {CodecPkt("Open", OpenJson)}
    \cup {CodecPkt("Message", d) : d \in SeqsUpTo(PayloadChars, MaxData)}
    \cup {CodecPkt("Binary", d) : d \in BinData}

\* a batch: the encoder awaits a first packet, then drains up to MaxBatch
Batches == UNION {[1..n -> CodecPackets] : n \in 1..MaxBatch}

\* base64 of a byte sequence: two characters of the alphabet for each byte
RECURSIVE Base64(_)
Base64(bs) ==
    IF bs = <<>> THEN <<>>
    ELSE <<B64Alphabet[Head(bs)], B64Alphabet[3 - Head(bs)]>>
         \o Base64(Tail(bs))

\* what Base64 can have produced
IsBase64(cs) ==
    /\ Len(cs) % 2 = 0
    /\ \A i \in 1..(Len(cs) \div 2) :
          <<cs[2 * i - 1], cs[2 * i]>> \in {<<"A", "B">>, <<"B", "A">>}

\* the inverse of Base64
RECURSIVE Base64Decode(_)
Base64Decode(cs) ==
    IF cs = <<>> THEN <<>>
    ELSE <<IF cs[1] = "A" THEN 1 ELSE 2>> \o Base64Decode(Tail(Tail(cs)))

\* the ASCII digit that opens a text packet
TypeChar(k) ==
    CASE k = "Open" -> "0"
      [] k = "Close" -> "1"
      [] k \in {"Ping", "PingUpgrade"} -> "2"
      [] k \in {"Pong", "PongUpgrade"} -> "3"
      [] k = "Message" -> "4"
      [] k = "Upgrade" -> "5"
      [] k = "Noop" -> "6"

\* one packet as polling text: type digit and payload, "2probe"/"3probe" for
\* the probes, b + base64 for a binary packet
EncodePacket(pk) ==
    IF pk.kind = "Binary" THEN <<"b">> \o Base64(pk.data)
    ELSE IF pk.kind \in {"PingUpgrade", "PongUpgrade"}
    THEN <<TypeChar(pk.kind)>> \o ProbeText
    ELSE <<TypeChar(pk.kind)>> \o pk.data

\* one packet read back from its text
DecodePacket(cs) ==
    IF cs = <<>> THEN ParseError
    ELSE LET rest == Tail(cs)
         IN  CASE cs[1] = "b" ->
                    IF ~IsBase64(rest) THEN ParseError
                    ELSE CodecPkt("Binary", Base64Decode(rest))
               [] cs[1] = "0" -> CodecPkt("Open", rest)
               [] cs[1] = "1" -> CodecPkt("Close", <<>>)
               [] cs[1] = "2" ->
                    IF rest = ProbeText THEN CodecPkt("PingUpgrade", <<>>)
                    ELSE CodecPkt("Ping", <<>>)
               [] cs[1] = "3" ->
                    IF rest = ProbeText THEN CodecPkt("PongUpgrade", <<>>)
                    ELSE CodecPkt("Pong", <<>>)
               [] cs[1] = "4" -> CodecPkt("Message", rest)
               [] cs[1] = "5" -> CodecPkt("Upgrade", <<>>)
               [] cs[1] = "6" -> CodecPkt("Noop", <<>>)
               [] OTHER -> ParseError

\* decimal digits of a natural number, and the number they spell
DigitChars == <<"0", "1", "2", "3", "4", "5", "6", "7", "8", "9">>
RECURSIVE Digits(_)
Digits(n) ==
    IF n < 10 THEN <<DigitChars[n + 1]>>
    ELSE Digits(n \div 10) \o <<DigitChars[(n % 10) + 1]>>

DigitValue(c) == CHOOSE d \in 0..9 : DigitChars[d + 1] = c
IsDigit(c) == \E d \in 0..9 : DigitChars[d + 1] = c
RECURSIVE ParseNat(_)
ParseNat(ds) ==
    IF ds = <<>> THEN 0
    ELSE 10 * ParseNat(SubSeq(ds, 1, Len(ds) - 1)) + DigitValue(ds[Len(ds)])

\* V4 payload: packet1 RS packet2 RS ... RS packetN
RECURSIVE EncodeV4(_)
EncodeV4(ps) ==
    IF Len(ps) = 1 THEN EncodePacket(ps[1])
    ELSE EncodePacket(ps[1]) \o <<RS>> \o EncodeV4(Tail(ps))

\* V3 payload: <charCount>:<packet> for each packet
RECURSIVE EncodeV3(_)
EncodeV3(ps) ==
    IF ps = <<>> THEN <<>>
    ELSE Digits(Len(EncodePacket(ps[1]))) \o <<":">> \o EncodePacket(ps[1])
         \o EncodeV3(Tail(ps))

\* Faulty variant of Encode: the V4 format is written for both versions.
EncodeIgnoresVersion(v, ps) == EncodeV4(ps)

\* payload::encoder for one batch
Encode(v, ps) == IF v = "V3" THEN EncodeV3(ps) ELSE EncodeV4(ps)

\* position of the first c in cs, 0 when there is none
FirstIndex(cs, c) ==
    IF \E i \in 1..Len(cs) : cs[i] = c
    THEN CHOOSE i \in 1..Len(cs) : cs[i] = c /\ \A j \in 1..(i - 1) : cs[j] # c
    ELSE 0

\* the V4 decoder cuts the body at every record separator
RECURSIVE DecodeV4(_)
DecodeV4(cs) ==
    LET i == FirstIndex(cs, RS)
    IN  IF i = 0 THEN <<DecodePacket(cs)>>
        ELSE <<DecodePacket(SubSeq(cs, 1, i - 1))>>
             \o DecodeV4(SubSeq(cs, i + 1, Len(cs)))

\* the V3 decoder reads a count up to the colon, then that many characters;
\* a frame it cannot read ends the sequence with an error
RECURSIVE DecodeV3(_)
DecodeV3(cs) ==
    IF cs = <<>> THEN <<>>
    ELSE LET i == FirstIndex(cs, ":")
             ds == SubSeq(cs, 1, i - 1)
             n == ParseNat(ds)
         IN  IF i < 2 \/ \E j \in 1..(i - 1) : ~IsDigit(cs[j])
             THEN <<ParseError>>
             ELSE IF i + n > Len(cs) THEN <<ParseError>>
             ELSE <<DecodePacket(SubSeq(cs, i + 1, i + n))>>
                  \o DecodeV3(SubSeq(cs, i + n + 1, Len(cs)))

\* payload::decoder: a body larger than max_payload is refused
Decode(v, cs) ==
    IF Len(cs) > MaxPayloadChars THEN <<PayloadTooLarge>>
    ELSE IF v = "V3" THEN DecodeV3(cs) ELSE DecodeV4(cs)

\* a batch and a protocol version are handed to the codec
InitCodec ==
    /\ session = "none"
    /\ transport = "Polling"
    /\ outbox = <<>>
    /\ rxClosed = FALSE
    /\ holders = {}
    /\ hbRunning = FALSE
    /\ hbSignal = FALSE
    /\ disconnects = <<>>
    /\ connects = 0
    /\ poll = [p \in Pollers |-> IdlePoll]
    /\ ws = [c \in Conns |-> IdleWs]
    /\ post = IdlePost
    /\ pending = <<>>
    /\ discarded = {}
    /\ wire = <<>>
    /\ ops = IdleOps
    /\ \E v \in Protocols, ps \in Batches :
          codec = [IdleCodec EXCEPT !.phase = "input", !.proto = v, !.ps = ps]

codecRest == <<session, transport, outbox, rxClosed, holders, hbRunning,
               hbSignal, disconnects, connects, poll, ws, post, pending,
               discarded, wire, ops>>

\* the encoder writes the batch as one response body
CodecEncode ==
    /\ codec.phase = "input"
    /\ codec' = [codec EXCEPT !.phase = "encoded",
                              !.payload = Encode(codec.proto, codec.ps)]
    /\ UNCHANGED codecRest

\* the decoder reads the body back
CodecDecode ==
    /\ codec.phase = "encoded"
    /\ codec' = [codec EXCEPT !.phase = "decoded",
                              !.decoded = Decode(codec.proto, codec.payload)]
    /\ UNCHANGED codecRest

NextCodec ==
    \/ CodecEncode
    \/ CodecDecode

SpecCodec == InitCodec /\ [][NextCodec]_vars

\* ================================================================ claims
Last(q) == q[Len(q)]
PollHolds(p) == poll[p].pc \in {"locked", "encoded"}
PumpHolds(c) == PumpRunning(ws[c].wpc)
HsHolds(c) == ws[c].pc = "hs_locked"

\* the session was created by a WebSocket request without a sid
CreatedByWs == \E c \in Conns : ws[c].pc # "idle" /\ ~ws[c].sid

\* C1: at every instant at most one task (polling request, upgrade handshake
\* or writer pump) holds the receiver lock of the session, and the lock
\* records exactly the tasks that are inside their locked section.
C1_SingleLockHolder ==
    /\ Cardinality(holders) <= 1
    /\ Cardinality({p \in Pollers : PollHolds(p)}) +
       Cardinality({c \in Conns : PumpHolds(c) \/ HsHolds(c)}) <= 1
    /\ holders = {p \in Pollers : PollHolds(p)} \cup
                 {c \in Conns : PumpHolds(c) \/ HsHolds(c)}

\* C1 witness: the lock is held by one task while another task is about to
\* ask for it.
C1_Witness ==
    \/ \E p, q \in Pollers : PollHolds(p) /\ poll[q].pc = "checked"
    \/ \E p \in Pollers, c \in Conns : PollHolds(p) /\ ws[c].pc = "hs5"
    \/ \E p \in Pollers, c \in Conns : PumpHolds(c) /\ poll[p].pc = "checked"

IsPrefix(a, b) == Len(a) <= Len(b) /\ SubSeq(b, 1, Len(a)) = a

\* C2: a polling request that finds the lock held by another polling request
\* does not wait: its next step ends it with HTTP 400, closes the session
\* (reason MultipleHttpPollingError when the session was still open), takes
\* nothing from the outbox and does not get the lock.
C2_ContendedPollCloses ==
    /\ [](\A p \in Pollers :
            poll[p].pc = "checked" => ENABLED PollTryLock(p))
    /\ [][\A p \in Pollers :
            (/\ poll[p].pc = "checked"
             /\ \E q \in Pollers \ {p} : q \in holders
             /\ poll'[p] # poll[p])
            => /\ poll'[p].pc = "done"
               /\ poll'[p].result = "BadRequest"
               /\ poll'[p].payload = <<>>
               /\ session' = "closed"
               /\ session = "open" =>
                    disconnects' = Append(disconnects, "MultipleHttpPollingError")
               /\ IsPrefix(outbox, outbox')
               /\ holders' = holders]_vars

\* C2 witness: a second poll was refused while the first still holds the
\* lock, and the handler was told MultipleHttpPollingError.
C2_Witness ==
    \E p, q \in Pollers :
        /\ p # q
        /\ poll[p].result = "BadRequest"
        /\ PollHolds(q)
        /\ disconnects = <<"MultipleHttpPollingError">>

\* C3: once the transport tag is WebSocket no polling request holds the
\* receiver lock or is past the is_http() check on its way to try_lock.
C3_NoPollerAfterFlip ==
    transport = "Websocket" =>
        \A p \in Pollers : ~PollHolds(p) /\ poll[p].pc # "checked"

Probe == <<"rPingUpgrade", "sPongUpgrade", "rUpgrade">>

\* C4: the tag of a session opened over polling is WebSocket only if some
\* WebSocket connection received PingUpgrade, sent PongUpgrade and received
\* Upgrade, in this order and nothing else.
C4_FlipOnlyAfterProbe ==
    (transport = "Websocket" /\ ~CreatedByWs) =>
        \E c \in Conns : ws[c].sid /\ ws[c].seen = Probe

\* C4 witness: a session opened over polling has been upgraded.
C4_Witness ==
    /\ session = "open"
    /\ ~CreatedByWs
    /\ transport = "Websocket"

C6_NoPollDeliveryAfterFlip ==
    \A p \in Pollers :
        /\ \A i \in 1..Len(poll[p].payload) :
               poll[p].payload[i].tag # "Websocket"
        /\ poll[p].result = "TransportMismatch" =>
               p \notin holders /\ poll[p].payload = <<>>

\* C7: whatever the number of close calls, on_disconnect has fired exactly
\* once for a closed session and never for an open one.
C7_DisconnectOnce ==
    /\ session = "closed" => Len(disconnects) = 1
    /\ session # "closed" => disconnects = <<>>

\* C7 witness: the reader pump got an Engine.IO Close packet, so the
\* connection called close_session in forward_to_handler and again in
\* on_init.
C7_Witness ==
    \E c \in Conns : ws[c].pc = "done" /\ ws[c].closeCalls = 2
MsgKinds == {"Message", "Binary", "BinaryV3"}
BadKinds == {"Open", "Upgrade", "Noop", "PingUpgrade", "PongUpgrade"}
Deliverable(b) == SelectSeq(b, LAMBDA e : e \in MsgKinds)
Front(b) == SubSeq(b, 1, Len(b) - 1)

\* C8: a POST that decoded a Close packet leaves the session closed, whatever
\* the state of the outbox, and Close is the last element it took from the
\* body.
C8_PostCloseAlwaysCloses ==
    (post.pc = "done" /\ "Close" \in {post.body[i] : i \in 1..Len(post.body)})
        => /\ Last(post.body) = "Close"
           /\ session = "closed"

\* C9: the POST fails with the parse error exactly when the decoder yielded a
\* malformed element; the session is then closed, by this request with reason
\* PacketParsingError if it was still open, and the handler has received the
\* Message/Binary packets that precede the malformed element, all of them and
\* in body order.
C9_ParseErrorClosesAfterDeliveries ==
    /\ [](/\ post.result = "ParseError" <=>
               (post.body # <<>> /\ Last(post.body) = "Malformed")
          /\ post.result = "ParseError" =>
               /\ post.pc = "done"
               /\ post.closeCalls = 1
               /\ session = "closed"
               /\ post.delivered = Deliverable(Front(post.body)))
    /\ [][(post.result # "ParseError" /\ post'.result = "ParseError"
              /\ session = "open")
            => disconnects' = <<"PacketParsingError">>]_vars

\* C9 witness: two packets were delivered before the malformed third element
\* closed the session.
C9_Witness ==
    /\ post.result = "ParseError"
    /\ Len(post.delivered) = 2
    /\ post.delivered[1] # post.delivered[2]
    /\ disconnects = <<"PacketParsingError">>

\* C10: a packet of kind Open, Upgrade, Noop, PingUpgrade or PongUpgrade ends
\* the POST with BadPacket and changes nothing in the session (registry
\* entry, transport tag, outbox, heartbeat, handler notifications); a POST
\* that ends with an error other than a parse error has not closed the
\* session.
C10_BadPacketKeepsSession ==
    [][/\ (post.pc = "decoding" /\ post'.body # post.body
              /\ Last(post'.body) \in BadKinds)
          => /\ post'.pc = "done"
             /\ post'.result = "BadPacket"
             /\ post'.delivered = post.delivered
             /\ UNCHANGED <<session, transport, outbox, rxClosed, holders,
                            hbRunning, hbSignal, disconnects>>
       /\ (post.pc # "done" /\ post'.pc = "done"
              /\ post'.result \notin {"Ok", "ParseError"})
          => /\ post'.closeCalls = 0
             /\ UNCHANGED <<session, disconnects>>]_vars

\* C10 witness: the POST failed with BadPacket after a delivery and the
\* session is still registered.
C10_Witness ==
    /\ post.result = "BadPacket"
    /\ post.delivered # <<>>
    /\ session = "open"
    /\ transport = "Polling"
    /\ outbox # <<>>

\* the packets a polling request took off the outbox for the response it is
\* building
Held ==
    IF \E p \in Pollers : poll[p].pc = "encoded"
    THEN poll[CHOOSE p \in Pollers : poll[p].pc = "encoded"].payload
    ELSE <<>>

\* the reader pump of c has returned and on_init has run to its end
ReaderEnded(c) == ws[c].pc = "done" /\ ws[c].wpc # "none"

C12_DeliveredInEnqueueOrder == [][IsPrefix(wire', pending)]_vars

\* C12 witness: after a polling response was served, the writer pump writes a
\* message that was enqueued while the session was still on polling.
C12_Witness ==
    /\ poll["p1"].result = "Ok"
    /\ PumpRunning(ws["w1"].wpc)
    /\ Len(wire) = 1
    /\ wire[1].kind = "Message"
    /\ wire[1].tag = "Polling"
    /\ outbox # <<>>

NoDuplicate(q) == \A i, j \in 1..Len(q) : q[i] = q[j] => i = j

\* the selection the design document gives for the calls made so far: the
\* members of the rooms named in to / within (all sockets when none was
\* named), minus the members of the rooms named in except, minus the emitter
\* when to, except or broadcast was called
Expected ==
    LET universe == IF ops.hist.sel = {} THEN Sockets
                    ELSE UNION {ops.members[r] : r \in ops.hist.sel}
        excepted == UNION {ops.members[r] : r \in ops.hist.exc}
    IN (universe \ excepted)
         \ (IF ops.hist.bc /\ ops.opts.sid # "None" THEN {ops.opts.sid} ELSE {})

\* C14: the selection resolved for sockets() or emit() holds only sockets of
\* the namespace, holds no session twice (also when a session is in several
\* selected rooms or a room was named in several calls), and does not hold
\* the emitter when the Broadcast flag is set and opts.sid is Some.
C14_SelectionWellFormed ==
    (ops.phase \in {"fetched", "emitted"} /\ ops.ser)
    => /\ Range(ops.sel) \subseteq Sockets
       /\ NoDuplicate(ops.sel)
       /\ ("Broadcast" \in ops.opts.flags /\ ops.opts.sid # "None")
          => ops.opts.sid \notin Range(ops.sel)

\* C14 witness: both rooms are selected under the Broadcast flag, B is in
\* both and is selected once, the emitter A is in r1 and is not selected.
C14_Witness ==
    /\ ops.phase = "fetched"
    /\ ops.opts.rooms = {"r1", "r2"}
    /\ "B" \in ops.members["r1"] \cap ops.members["r2"]
    /\ "A" \in ops.members["r1"]
    /\ ops.opts.sid = "A"
    /\ "Broadcast" \in ops.opts.flags
    /\ Count(ops.sel, "B") = 1
    /\ Count(ops.sel, "A") = 0

\* C15: an emit whose data serializes enqueues the packet once on every
\* session of the expected selection whose send succeeds and on no other
\* session: the members of the rooms named in to / within with the
\* emitter left out iff to, except or broadcast was called, minus the members
\* of the excepted rooms, and all sockets of the namespace when no room was
\* named.
C15_EmitReachesExpected ==
    (ops.phase = "emitted" /\ ops.ser)
    => \A s \in Sockets :
         ops.enq[s] = IF s \in Expected \ ops.failed THEN 1 ELSE 0

\* C15 witness: A and B are in r1, C is in r2, A emits through to(r1): the
\* packet is enqueued for B only.
C15_Witness ==
    /\ ops.phase = "emitted"
    /\ ops.ser
    /\ ops.opts.sid = "A"
    /\ ops.hist = [sel |-> {"r1"}, exc |-> {}, bc |-> TRUE]
    /\ ops.members = [r \in Rooms |-> IF r = "r1" THEN {"A", "B"} ELSE {"C"}]
    /\ ops.failed = {}
    /\ ops.enq = [s \in Sockets |-> IF s = "B" THEN 1 ELSE 0]

\* C16: the Broadcast flag is set iff to, except or broadcast was called; a
\* call never changes opts.sid; to changes only opts.rooms and adds the flag,
\* within changes only opts.rooms, except changes only opts.except and adds
\* the flag, broadcast only adds the flag, and local, timeout and bin leave
\* the rooms, the excepted rooms and the Broadcast flag as they were.
C16_BroadcastFlagFrame ==
    /\ [](ops.phase # "idle"
            => ("Broadcast" \in ops.opts.flags <=> ops.hist.bc))
    /\ [][(ops.phase = "building" /\ ops'.phase = "building")
          => LET o == ops.opts
                 n == ops'.opts
                 call == ops'.last
             IN /\ n.sid = o.sid
                /\ call = "to"
                   => /\ o.rooms \subseteq n.rooms
                      /\ n.except = o.except
                      /\ n.flags = o.flags \cup {"Broadcast"}
                      /\ ops'.binary = ops.binary
                /\ call = "within"
                   => /\ o.rooms \subseteq n.rooms
                      /\ n.except = o.except
                      /\ n.flags = o.flags
                      /\ ops'.binary = ops.binary
                /\ call = "except"
                   => /\ n.rooms = o.rooms
                      /\ o.except \subseteq n.except
                      /\ n.flags = o.flags \cup {"Broadcast"}
                      /\ ops'.binary = ops.binary
                /\ call = "broadcast"
                   => /\ n.rooms = o.rooms
                      /\ n.except = o.except
                      /\ n.flags = o.flags \cup {"Broadcast"}
                /\ call \in {"local", "timeout", "bin"}
                   => /\ n.rooms = o.rooms
                      /\ n.except = o.except
                      /\ ("Broadcast" \in n.flags <=> "Broadcast" \in o.flags)]_vars

\* C16 witness: within, local, timeout and bin were called, rooms are
\* selected and the Broadcast flag is not set.
C16_Witness ==
    /\ ops.phase = "building"
    /\ ops.last = "within"
    /\ ops.opts.rooms = {"r1", "r2"}
    /\ ops.opts.flags = {"Local", "Timeout"}
    /\ ops.binary = "attached"
    /\ ops.opts.sid = "A"

C18_FanoutBestEffort ==
    (ops.phase = "emitted" /\ ops.ser)
    => /\ ops.result = "Ok"
       /\ \A s \in Range(ops.sel) \ ops.failed : ops.enq[s] >= 1

\* C18 witness: the send to B failed, the packet is enqueued on another
\* selected session and emit returned Ok.
C18_Witness ==
    /\ ops.phase = "emitted"
    /\ ops.ser
    /\ ops.failed = {"B"}
    /\ "B" \in Range(ops.sel)
    /\ ops.enq["B"] = 0
    /\ \E s \in Range(ops.sel) \ {"B"} : ops.enq[s] = 1
    /\ ops.result = "Ok"

\* C19: a WebSocket request carrying the sid of no registered session ends
\* with UnknownSessionID, one on a session already on WebSocket ends with
\* UpgradeError; the step creates no session, exchanges no frame and leaves
\* the session, its outbox and the other requests as they were.
C19_SidRequestRejected ==
    [][\A c \in Conns :
         (ws[c].pc = "idle" /\ ws'[c].pc # "idle" /\ ws'[c].sid
            /\ (session # "open" \/ transport = "Websocket"))
         => /\ ws'[c].pc = "done"
            /\ ws'[c].result = IF session # "open" THEN "UnknownSessionID"
                               ELSE "UpgradeError"
            /\ ws'[c].seen = <<>>
            /\ ws'[c].wpc = "none"
            /\ UNCHANGED <<engineVars, poll, post, pending>>
            /\ \A d \in Conns \ {c} : ws'[d] = ws[d]]_vars

\* C19 witness: the second request is refused with UpgradeError while the
\* session created on WebSocket by the first one is open and being read.
C19_Witness ==
    /\ ws["w2"].sid
    /\ ws["w2"].pc = "done"
    /\ ws["w2"].result = "UpgradeError"
    /\ ws["w2"].bad = "none"
    /\ session = "open"
    /\ transport = "Websocket"
    /\ ws["w1"].pc = "reading"

\* C20, as stated: a handshake that met an unexpected frame has failed with
\* UpgradeError.
C20_OtherFrameIsUpgradeError ==
    \A c \in Conns : ws[c].bad # "none" => ws[c].result = "UpgradeError"

\* C20, amended: a handshake that met an unexpected frame has failed before
\* the tag flip, with UpgradeError for a Close frame, a binary frame, a
\* control frame or the end of the stream, with BadPacket for a text frame
\* carrying another packet and with the parse error for undecodable text.
C20_UnexpectedFrameFails ==
    \A c \in Conns :
        ws[c].bad # "none"
        => /\ ws[c].pc = "done"
           /\ ws[c].wpc = "none"
           /\ ws[c].seen \in {<<>>, <<"rPingUpgrade", "sPongUpgrade">>}
           /\ ws[c].result =
                CASE ws[c].bad \in {"Close", "Binary", "Other"} -> "UpgradeError"
                  [] ws[c].bad = "TextPacket" -> "BadPacket"
                  [] ws[c].bad = "TextUndecodable" -> "ParseError"

\* C20 witness: after 2probe / 3probe the handshake was given a text frame
\* carrying another packet and failed with BadPacket on a polling session.
C20_Witness ==
    /\ ws["w1"].bad = "TextPacket"
    /\ ws["w1"].result = "BadPacket"
    /\ ws["w1"].seen = <<"rPingUpgrade", "sPongUpgrade">>
    /\ session = "open"
    /\ transport = "Polling"

C23_OneNoopPerHandshake ==
    /\ [](\A c \in Conns :
            /\ ws[c].noops <= 1
            /\ ws[c].pc = "hs1"
               => ws[c].noops = IF ws[c].proto = "V4" THEN 1 ELSE 0
            /\ (ws[c].sid /\ ws[c].pc \in {"hs4", "hs5", "hs_locked", "hs6",
                                           "connected", "reading", "ret"})
               => ws[c].noops = 1
            /\ ws[c].result \in {"Closed", "BufferFull"}
               => /\ ws[c].pc = "done"
                  /\ ws[c].wpc = "none"
                  /\ ws[c].noops = 0)
    /\ [][\A c \in Conns :
            (ws[c].pc \in {"hs0", "hs1"} /\ ws'[c].pc = "done"
               /\ ws'[c].result \in {"Closed", "BufferFull"})
            => UNCHANGED <<session, transport, outbox>>]_vars

\* C23 witness: a V3 handshake answered the probe, found the outbox full for
\* its Noop and failed on a session that is still on polling.
C23_Witness ==
    /\ ws["w1"].proto = "V3"
    /\ ws["w1"].result = "BufferFull"
    /\ ws["w1"].seen = <<"rPingUpgrade", "sPongUpgrade">>
    /\ ws["w1"].noops = 0
    /\ session = "open"
    /\ transport = "Polling"

\* C24: on_connect is never invoked a second time for the session.
C24_ConnectOnce == connects <= 1

\* C25: no writer pump finds the receiver lock held when it starts.
C25_PumpLockFree == \A c \in Conns : ws[c].wpc # "panicked"

\* C26: once on_init has returned for a request without a sid and no pump was
\* started, the session it created is no longer registered.
C26_InitFailureRemovesSession ==
    \A c \in Conns :
        (ws[c].pc = "done" /\ ~ws[c].sid /\ ws[c].wpc = "none")
        => session # "open"

\* C27: no incoming frame makes the connection task abort inside the reader
\* pump.
C27_ReaderNeverPanics == \A c \in Conns : ws[c].pc # "panicked"

\* C28: the transport tag of a session changes only from Polling to
\* WebSocket, and only in the last step of a handshake that saw 2probe and 5
\* and answered 3probe; a session created as WebSocket is never on Polling.
C28_TagMonotonic ==
    /\ [][(transport' # transport /\ session # "none")
          => /\ transport = "Polling"
             /\ transport' = "Websocket"
             /\ \E c \in Conns :
                  /\ ws[c].pc = "hs6"
                  /\ ws[c].seen = Probe
                  /\ ws'[c].pc = "connected"]_vars
    /\ [](CreatedByWs => transport = "Websocket")

\* C28 witness: the session was upgraded, its connection has ended, and a
\* later polling request was refused with TransportMismatch.
C28_Witness ==
    /\ ws["w1"].sid
    /\ ws["w1"].pc = "done"
    /\ ws["w1"].wpc = "aborted"
    /\ transport = "Websocket"
    /\ poll["p1"].result = "TransportMismatch"
    /\ poll["p2"].result = "Ok"

\* C29: the step in which a handshake fails on an unexpected frame ends the
\* connection and leaves the session, its tag, outbox, lock and heartbeat as
\* they were; no pump is started for that connection; a polling request that
\* arrives afterwards on the open session passes the lookup and the
\* transport check.
C29_FailedHandshakeKeepsSession ==
    /\ [][\A c \in Conns :
            (ws[c].pc \in {"hs1", "hs4"} /\ ws'[c].bad # "none")
            => /\ ws'[c].pc = "done"
               /\ UNCHANGED <<engineVars, pending>>]_vars
    /\ [](\A c \in Conns :
            ws[c].bad # "none"
            => /\ ws[c].pc = "done"
               /\ ws[c].wpc = "none"
               /\ ws[c].closeCalls = 0)
    /\ [][\A p \in Pollers :
            (poll[p].pc = "idle" /\ poll'[p].pc # "idle" /\ HandshakeFailed
               /\ session = "open" /\ transport = "Polling")
            => poll'[p].pc = "checked"]_vars

\* C29 witness: after the handshake failed on a Close frame a polling request
\* started and was served a message on the session, still open and on
\* polling.
C29_Witness ==
    /\ ws["w1"].bad = "Close"
    /\ poll["p1"].late
    /\ poll["p1"].result = "Ok"
    /\ Len(wire) = 1
    /\ wire[1].kind = "Message"
    /\ session = "open"
    /\ transport = "Polling"

\* a message payload of the batch holds the record separator
SeparatorInPayload ==
    \E i \in 1..Len(codec.ps) :
        /\ codec.ps[i].kind = "Message"
        /\ \E j \in 1..Len(codec.ps[i].data) : codec.ps[i].data[j] = RS
\* the batch was encoded within max_payload and decoded again
RoundTripDone ==
    /\ codec.phase = "decoded"
    /\ Len(codec.payload) <= MaxPayloadChars

====
